---- MODULE Spec2Model ----
(***************************************************************************)
(* http_hopper: the forwarding handler (ForwardRequest), the concurrent    *)
(* fan-out (forwardRequestToDestinations), the traffic hub (StreamTraffic, *)
(* BroadcastTraffic) and the composition of the forward url behind         *)
(* URLNormalizationMiddleware, as a state machine.                         *)
(*                                                                         *)
(* A thread is a pair <<d, i>>: <<d, 0>> is the goroutine that serves      *)
(* inbound request d (ForwardRequest), <<d, i>> with i >= 1 is the replay  *)
(* goroutine started for activeDestinations[i] of request d.               *)
(***************************************************************************)
EXTENDS Integers, Sequences, FiniteSets, TLC

\* ------------------------------------------------------------------ bounds
MaxDests == 2
MaxReqs == 2
MaxSubs == 1
MaxConns == 3
MaxBaseLen == 3
MaxPathLen == 4

\* ------------------------------------------------------------------ values
\* A nil pointer (defaultDestination, resp, defaultResponse) or nil slice.
Nil == [kind |-> "nil"]
\* The holder of an unlocked mutex.
NoThread == <<0, 0>>
\* destinations before getAllDestinationsFromDB has returned.
NotListed == [listed |-> FALSE, dests |-> << >>]
\* The method of a request that never arrives.
NoReq == "noreq"

\* Inbound methods (net/http accepts only valid method tokens).
Methods == {"GET", "POST"}
\* Method filters a destination record may carry: "" is the wildcard, and the
\* directory stores whatever string it was given, lower case included.
DestMethods == {"", "GET", "POST", "get"}
\* Destination urls: empty, two well-formed hosts, one that url.Parse rejects.
EmptyURL == ""
BadURL == "http://[::1"
URLs == {EmptyURL, "http://a", "http://b", BadURL}
\* Status codes a destination may answer with.
StatusCodes == {200, 404, 503}

StatusBadGateway == 502
StatusInternalServerError == 500

Reqs == 1..MaxReqs
\* Websocket connections: every connection that is ever upgraded on /traffic.
Subs == 1..MaxConns
Threads == Reqs \X (0..MaxDests)
Handler(d) == <<d, 0>>
IsHandler(t) == t[2] = 0

\* type Destination struct {ID, URL, Method, IsActive, IsDefault}
DestRecords(i) ==
    [id : {i}, url : URLs, method : DestMethods, isActive : BOOLEAN, isDefault : BOOLEAN]

RECURSIVE Directories(_)
\* All destination lists of length n; the record at position i has ID i.
Directories(n) ==
    IF n = 0 THEN {<< >>}
    ELSE {Append(l, r) : l \in Directories(n - 1), r \in DestRecords(n)}

VARIABLES
    directory,            \* the destinations collection (getAllDestinationsFromDB)
    inbound,              \* inbound[d]: r.Method of request d, NoReq when d never arrives
    pc,                   \* pc[t]: position of thread t
    snapshot,             \* destinations, the list ForwardRequest d read
    active,               \* activeDestinations of request d
    defaultDest,          \* *defaultDestination as passed to the fan-out (Nil: nil pointer)
    wg,                   \* the WaitGroup counter of the fan-out of request d
    capMu,                \* the fan-out's local mutex mu: index of the holder, 0 when free
    resp,                 \* resp[t]: the *http.Response client.Do returned to replay t
    outcome,              \* outcome[t]: how replay t ended
    sent,                 \* sent[t]: outbound requests replay t put on the wire
    defaultResponse,      \* captured *http.Response of request d
    defaultResponseBody,  \* captured body bytes of request d
    writers,              \* writers[d]: replays of d that assigned the captured pair
    servers,              \* servers[u]: how the server at url u answers
    reply,                \* what ForwardRequest d wrote to its ResponseWriter
    clients,              \* the hub's clients map
    hubMu,                \* the hub's global mutex: holding thread, or NoThread
    iter,                 \* clients the running BroadcastTraffic has yet to visit
    hubLog,               \* lines handed to BroadcastTraffic, in lock order
    received,             \* received[c]: indexes into hubLog written to subscriber c
    audience,             \* audience[k]: the clients map when line k's range started
    spc,                  \* spc[c]: position of the StreamTraffic goroutine of c
    closed,               \* closed[c]: Close() was called on connection c
    route,                \* a request on its way through the middleware and the composition
    forwardURL            \* the forward target composed for it

handlerVars == <<snapshot, active, defaultDest, reply>>
fanVars == <<wg, capMu, resp, outcome, sent, defaultResponse, defaultResponseBody, writers>>
hubVars == <<clients, hubMu, iter, hubLog, received, audience, spc, closed>>
urlVars == <<route, forwardURL>>
vars == <<directory, inbound, servers, pc, handlerVars, fanVars, hubVars, urlVars>>

\* ------------------------------------------------------- ForwardRequest
\* strings.ToUpper on the method strings of the model.
ToUpper(s) == IF s = "get" THEN "GET" ELSE s

\* Mutant of Eligible: the isActive test is dropped.
EligibleIgnoringActive(dest, m) ==
    dest.method = "" \/ dest.method = m

\* Mutant of Eligible: the methods are compared with strings.EqualFold.
EligibleEqualFold(dest, m) ==
    dest.isActive /\ (dest.method = "" \/ ToUpper(dest.method) = ToUpper(m))

\* dest.IsActive and (dest.Method == "" || dest.Method == r.Method); Go
\* compares strings byte for byte.
Eligible(dest, m) ==
    dest.isActive /\ (dest.method = "" \/ dest.method = m)

\* Mutant of SetsDefault: the isDefault test is made before the filter.
SetsDefaultBeforeFilter(dest, m) ==
    dest.isDefault

\* The iteration that assigns defaultDestination = &dest: the destination was
\* appended to activeDestinations and has IsDefault set.
SetsDefault(dest, m) ==
    Eligible(dest, m) /\ dest.isDefault

RECURSIVE FilterLoop(_, _, _)
\* The state of the selection loop after its first k iterations: the slice
\* activeDestinations, the loop variable dest and the pointer defaultDestination.
\* The module is built as go 1.16: the range loop has ONE variable dest, which
\* every iteration overwrites, and &dest is the address of that one variable.
FilterLoop(dests, m, k) ==
    IF k = 0 THEN [active |-> << >>, dest |-> Nil, ptr |-> "nil"]
    ELSE LET prev == FilterLoop(dests, m, k - 1)
             cur == dests[k]
         IN  [active |-> IF Eligible(cur, m) THEN Append(prev.active, cur)
                         ELSE prev.active,
              dest |-> cur,
              ptr |-> IF SetsDefault(cur, m) THEN "&dest"
                      ELSE prev.ptr]

\* *defaultDestination once the loop is over: the loop variable's last value.
Deref(loop) == IF loop.ptr = "nil" THEN Nil ELSE loop.dest

\* url.Parse: fails on the malformed url.
ParseOK(u) == u # BadURL

\* http.NewRequest: fails on an invalid method token (the composed url is the
\* String() of a parsed url and parses again).
NewRequestOK(m) == m \in Methods

\* client.Do puts a request on the wire only for a url with a scheme and a host.
Sendable(u) == u # EmptyURL

NoReply == [kind |-> "none"]
ErrorReply(code, text) == [kind |-> "error", code |-> code, text |-> text]
\* Mutant of RelayReply: a 5xx status of the destination is rewritten to 502.
RelayReplyAsGateway(r, b) ==
    [kind |-> "relay", code |-> IF r.status >= 500 THEN StatusBadGateway ELSE r.status,
     header |-> r.dest, body |-> b]

\* The relay: headers and status of defaultResponse, the bytes of responseBody.
RelayReply(r, b) ==
    [kind |-> "relay", code |-> r.status, header |-> r.dest, body |-> b]

\* The checks of ForwardRequest between the loop and the fan-out, in order:
\* the reply of the first that fails, NoReply when all pass.
PreCheck(loop) ==
    IF Len(loop.active) = 0
        THEN ErrorReply(StatusBadGateway, "No active destinations available")
    ELSE IF loop.ptr = "nil"
        THEN ErrorReply(StatusInternalServerError, "No default destination specified")
    ELSE IF Deref(loop).url = EmptyURL
        THEN ErrorReply(StatusInternalServerError, "Default destination URL is empty")
    ELSE IF ~ParseOK(Deref(loop).url)
        THEN ErrorReply(StatusInternalServerError, "Error parsing default destination URL")
    ELSE NoReply

TasksOf(d) == {<<d, i>> : i \in 1..Len(active[d])}
\* Mutant of Destination: the goroutine reads the collection as it is now.
DestinationNow(t) ==
    IF t[2] \in 1..Len(directory) THEN directory[t[2]] ELSE active[t[1]][t[2]]

\* The destination argument of replay goroutine t: go func(destination)(dest).
Destination(t) == active[t[1]][t[2]]

\* The servers behind the destination urls. An unscripted server may answer a
\* request in any way; a scripted one answers every request the same way: it
\* refuses the connection, or it sends one status and a complete body.
Unscripted == [mode |-> "any"]
Refuses == [mode |-> "refuse"]
Answers(s) == [mode |-> "status", status |-> s]
Scripts == {Refuses} \cup {Answers(s) : s \in StatusCodes}
CanRefuse(u) == servers[u].mode \in {"any", "refuse"}
CanAnswer(u, s) == servers[u] \in {Unscripted, Answers(s)}
CanBreak(u) == servers[u] = Unscripted

\* No request is being composed.
NoRoute == [stage |-> "none"]

\* Any directory of at most MaxDests records, any subset of the subscribers
\* connected, and one inbound request, of either method.
Init ==
    /\ directory \in UNION {Directories(n) : n \in 0..MaxDests}
    /\ inbound \in {[d \in Reqs |-> IF d = 1 THEN m ELSE NoReq] : m \in Methods}
    /\ pc = [t \in Threads |-> IF IsHandler(t) /\ inbound[t[1]] # NoReq
                                THEN "start" ELSE "idle"]
    /\ snapshot = [d \in Reqs |-> NotListed]
    /\ active = [d \in Reqs |-> << >>]
    /\ defaultDest = [d \in Reqs |-> Nil]
    /\ reply = [d \in Reqs |-> NoReply]
    /\ wg = [d \in Reqs |-> 0]
    /\ capMu = [d \in Reqs |-> 0]
    /\ resp = [t \in Threads |-> Nil]
    /\ outcome = [t \in Threads |-> "none"]
    /\ sent = [t \in Threads |-> 0]
    /\ defaultResponse = [d \in Reqs |-> Nil]
    /\ defaultResponseBody = [d \in Reqs |-> Nil]
    /\ writers = [d \in Reqs |-> {}]
    /\ servers = [u \in URLs |-> Unscripted]
    /\ clients \in SUBSET (1..MaxSubs)
    /\ hubMu = NoThread
    /\ iter = {}
    /\ hubLog = << >>
    /\ audience = << >>
    /\ received = [c \in Subs |-> << >>]
    /\ spc = [c \in Subs |-> IF c \in clients THEN "reading" ELSE "idle"]
    /\ closed = [c \in Subs |-> FALSE]
    /\ route = NoRoute
    /\ forwardURL = Nil

\* ForwardRequest, entry: read the body, then BroadcastTraffic(logMessage).
\* Mutant of AfterBody: the handler goes to the directory without a broadcast.
AfterBodyToDirectory(d) == "list"

\* What ForwardRequest does once the body is read: BroadcastTraffic(logMessage).
AfterBody(d) == "bcLock"

HStart(d) ==
    /\ pc[Handler(d)] = "start"
    /\ \/ /\ pc' = [pc EXCEPT ![Handler(d)] = AfterBody(d)]
          /\ UNCHANGED reply
       \/ \* ioutil.ReadAll(r.Body) failed
          /\ reply' = [reply EXCEPT ![d] =
                ErrorReply(StatusInternalServerError, "Error reading request body")]
          /\ pc' = [pc EXCEPT ![Handler(d)] = "done"]
    /\ UNCHANGED <<urlVars, directory, inbound, servers, snapshot, active, defaultDest, fanVars, hubVars>>

\* ForwardRequest from getAllDestinationsFromDB to the call of
\* forwardRequestToDestinations, and that function up to wg.Wait: the loop
\* wg.Add(1); go func(dest) over activeDestinations.
HList(d) ==
    /\ pc[Handler(d)] = "list"
    /\ \/ \* the directory lookup failed
          /\ reply' = [reply EXCEPT ![d] =
                ErrorReply(StatusInternalServerError, "Error getting destinations")]
          /\ pc' = [pc EXCEPT ![Handler(d)] = "done"]
          /\ UNCHANGED <<snapshot, active, defaultDest, wg>>
       \/ LET loop == FilterLoop(directory, inbound[d], Len(directory))
              check == PreCheck(loop)
          IN  /\ snapshot' = [snapshot EXCEPT ![d] = [listed |-> TRUE, dests |-> directory]]
              /\ active' = [active EXCEPT ![d] = loop.active]
              /\ defaultDest' = [defaultDest EXCEPT ![d] = Deref(loop)]
              /\ IF check # NoReply
                    THEN /\ reply' = [reply EXCEPT ![d] = check]
                         /\ pc' = [pc EXCEPT ![Handler(d)] = "done"]
                         /\ UNCHANGED wg
                    ELSE /\ wg' = [wg EXCEPT ![d] = Len(loop.active)]
                         /\ pc' = [t \in Threads |->
                                IF t = Handler(d) THEN "wait"
                                ELSE IF t[1] = d /\ t[2] \in 1..Len(loop.active)
                                    THEN "start"
                                ELSE pc[t]]
                         /\ UNCHANGED reply
    /\ UNCHANGED <<urlVars, directory, inbound, servers, capMu, resp, outcome, sent,
                   defaultResponse, defaultResponseBody, writers, hubVars>>

\* Mutant of CaptureSlot: the captured pair is one variable of the package.
CaptureSlotShared(t) == 1

\* var defaultResponse, defaultResponseBody: locals of the call of
\* forwardRequestToDestinations that thread t belongs to.
CaptureSlot(t) == t[1]

\* Mutant of WaitReturns: the fan-out does not wait for its goroutines.
WaitReturnsAtOnce(d) == TRUE

\* wg.Wait() blocks until the counter is zero.
WaitReturns(d) == wg[d] = 0

\* wg.Wait() returns; forwardRequestToDestinations returns the captured pair or
\* an error, and ForwardRequest relays it or answers 500.
HWait(d) ==
    /\ pc[Handler(d)] = "wait"
    /\ WaitReturns(d)
    /\ reply' = [reply EXCEPT ![d] =
            LET own == CaptureSlot(Handler(d))
            IN  IF defaultResponse[own] = Nil
                    THEN ErrorReply(StatusInternalServerError,
                            "Error forwarding request: no response received from default destination")
                    ELSE RelayReply(defaultResponse[own], defaultResponseBody[own])]
    /\ pc' = [pc EXCEPT ![Handler(d)] = "done"]
    /\ UNCHANGED <<urlVars, directory, inbound, servers, snapshot, active, defaultDest, fanVars, hubVars>>

\* -------------------------------------------- forwardRequestToDestinations
\* The goroutine of replay t from its start to the call of client.Do:
\* url.Parse, the composed target, http.NewRequest, and Do's first half.
TStart(t) ==
    /\ ~IsHandler(t)
    /\ pc[t] = "start"
    /\ LET u == Destination(t).url
       IN  IF ~ParseOK(u)
               THEN /\ outcome' = [outcome EXCEPT ![t] = "parseErr"]
                    /\ pc' = [pc EXCEPT ![t] = "exit"]
                    /\ UNCHANGED sent
           ELSE IF ~NewRequestOK(inbound[t[1]])
               THEN /\ outcome' = [outcome EXCEPT ![t] = "requestErr"]
                    /\ pc' = [pc EXCEPT ![t] = "exit"]
                    /\ UNCHANGED sent
           ELSE IF ~Sendable(u)
               THEN \* client.Do: unsupported protocol scheme
                    /\ outcome' = [outcome EXCEPT ![t] = "doErr"]
                    /\ pc' = [pc EXCEPT ![t] = "bcLock"]
                    /\ UNCHANGED sent
           ELSE /\ sent' = [sent EXCEPT ![t] = @ + 1]
                /\ pc' = [pc EXCEPT ![t] = "await"]
                /\ UNCHANGED outcome
    /\ UNCHANGED <<urlVars, directory, inbound, servers, handlerVars, wg, capMu, resp,
                   defaultResponse, defaultResponseBody, writers, hubVars>>

\* Mutant of IsCapture: every replay that got a response takes the capture.
IsCaptureAlways(destination, defaultDst) == TRUE

\* if destination.URL == defaultDest.URL: the capture is decided by comparing
\* url strings.
IsCapture(destination, defaultDst) == destination.url = defaultDst.url

\* client.Do returns: an error, or a response; with a response the goroutine
\* goes for the capture lock when its url is the default's, and to the
\* success broadcast otherwise.
TResponse(t) ==
    /\ ~IsHandler(t)
    /\ pc[t] = "await"
    /\ \/ /\ CanRefuse(Destination(t).url)
          /\ outcome' = [outcome EXCEPT ![t] = "doErr"]
          /\ pc' = [pc EXCEPT ![t] = "bcLock"]
          /\ UNCHANGED resp
       \/ \E s \in StatusCodes :
          /\ CanAnswer(Destination(t).url, s)
          /\ resp' = [resp EXCEPT ![t] =
                [kind |-> "resp", dest |-> Destination(t).id, status |-> s]]
          /\ IF IsCapture(Destination(t), defaultDest[t[1]])
                THEN /\ pc' = [pc EXCEPT ![t] = "lock"]
                     /\ UNCHANGED outcome
                ELSE /\ pc' = [pc EXCEPT ![t] = "bcLock"]
                     /\ outcome' = [outcome EXCEPT ![t] = "ok"]
    /\ UNCHANGED <<urlVars, directory, inbound, servers, handlerVars, wg, capMu, sent,
                   defaultResponse, defaultResponseBody, writers, hubVars>>

\* mu.Lock() of the capture branch.
TLock(t) ==
    /\ ~IsHandler(t)
    /\ pc[t] = "lock"
    /\ capMu[t[1]] = 0
    /\ capMu' = [capMu EXCEPT ![t[1]] = t[2]]
    /\ pc' = [pc EXCEPT ![t] = "read"]
    /\ UNCHANGED <<urlVars, directory, inbound, servers, handlerVars, wg, resp, outcome, sent,
                   defaultResponse, defaultResponseBody, writers, hubVars>>

\* defaultResponseBody, err = ioutil.ReadAll(resp.Body), under mu: the read
\* either drains the body, and defaultResponse is set, or fails, and only the
\* bytes read so far have been stored.
TRead(t) ==
    /\ ~IsHandler(t)
    /\ pc[t] = "read"
    /\ \/ /\ defaultResponseBody' = [defaultResponseBody EXCEPT ![CaptureSlot(t)] =
                [kind |-> "body", dest |-> Destination(t).id, complete |-> TRUE]]
          /\ defaultResponse' = [defaultResponse EXCEPT ![CaptureSlot(t)] = resp[t]]
          /\ outcome' = [outcome EXCEPT ![t] = "ok"]
          /\ pc' = [pc EXCEPT ![t] = "bcLock"]
       \/ /\ CanBreak(Destination(t).url)
          /\ defaultResponseBody' = [defaultResponseBody EXCEPT ![CaptureSlot(t)] =
                [kind |-> "body", dest |-> Destination(t).id, complete |-> FALSE]]
          /\ outcome' = [outcome EXCEPT ![t] = "readErr"]
          /\ pc' = [pc EXCEPT ![t] = "exit"]
          /\ UNCHANGED defaultResponse
    /\ writers' = [writers EXCEPT ![t[1]] = @ \cup {t[2]}]
    /\ UNCHANGED <<urlVars, directory, inbound, servers, handlerVars, wg, capMu, resp, sent, hubVars>>

\* Mutant of Released: the goroutine returns without unlocking mu.
ReleasedNever(holder, t) == holder

\* defer mu.Unlock() of the capture branch: the mutex is free again when the
\* goroutine that returns held it.
Released(holder, t) == IF holder = t[2] THEN 0 ELSE holder

\* The goroutine returns: its deferred calls run, mu.Unlock() (when it holds
\* mu), resp.Body.Close() and wg.Done().
TExit(t) ==
    /\ ~IsHandler(t)
    /\ pc[t] = "exit"
    /\ capMu' = [capMu EXCEPT ![t[1]] = Released(@, t)]
    /\ wg' = [wg EXCEPT ![t[1]] = @ - 1]
    /\ pc' = [pc EXCEPT ![t] = "done"]
    /\ UNCHANGED <<urlVars, directory, inbound, servers, handlerVars, resp, outcome, sent,
                   defaultResponse, defaultResponseBody, writers, hubVars>>

\* ------------------------------------------------------ BroadcastTraffic
\* The line thread t hands to the hub.
LineOf(t) ==
    [by |-> t,
     kind |-> IF IsHandler(t) THEN "incoming"
              ELSE IF outcome[t] = "ok" THEN "forwarded"
              ELSE "error"]

\* Mutant of HubFree: BroadcastTraffic enters without taking mu.
HubFreeAlways(t) == TRUE

\* mu.Lock() of BroadcastTraffic returns only when nobody holds mu.
HubFree(t) == hubMu = NoThread

\* mu.Lock() of BroadcastTraffic; the range over clients starts.
BcLock(t) ==
    /\ pc[t] = "bcLock"
    /\ HubFree(t)
    /\ hubMu' = t
    /\ iter' = clients
    /\ hubLog' = Append(hubLog, LineOf(t))
    /\ audience' = Append(audience, clients)
    /\ pc' = [pc EXCEPT ![t] = "bcWrite"]
    /\ UNCHANGED <<urlVars, directory, inbound, servers, handlerVars, fanVars, clients, received,
                   spc, closed>>

\* Mutant of Deleted: the failed write empties the map.
DeletedAll(c) == {}

\* delete(clients, client)
Deleted(c) == clients \ {c}

\* Mutant of WriteMaySucceed: a closed connection still takes a message.
WriteAlwaysMaySucceed(c) == TRUE

\* client.WriteMessage returns nil only on a connection that is not closed.
WriteMaySucceed(c) == ~closed[c]

\* One iteration of the range: client.WriteMessage succeeds, or fails and the
\* client is closed and deleted from the map. A write on a closed connection
\* always fails.
BcWrite(t, c) ==
    /\ pc[t] = "bcWrite"
    /\ c \in iter
    /\ iter' = iter \ {c}
    /\ \/ /\ WriteMaySucceed(c)
          /\ received' = [received EXCEPT ![c] = Append(@, Len(hubLog))]
          /\ UNCHANGED <<clients, closed>>
       \/ /\ clients' = Deleted(c)
          /\ closed' = [closed EXCEPT ![c] = TRUE]
          /\ UNCHANGED received
    /\ UNCHANGED <<urlVars, directory, inbound, servers, pc, handlerVars, fanVars, hubMu, hubLog,
                   audience, spc>>

\* The range is over; the deferred mu.Unlock() runs and BroadcastTraffic
\* returns to its caller: ForwardRequest goes on to the directory, a replay
\* goroutine returns.
BcUnlock(t) ==
    /\ pc[t] = "bcWrite"
    /\ iter = {}
    /\ hubMu' = NoThread
    /\ pc' = [pc EXCEPT ![t] = IF IsHandler(t) THEN "list" ELSE "exit"]
    /\ UNCHANGED <<urlVars, directory, inbound, servers, handlerVars, fanVars, clients, iter,
                   hubLog, received, audience, spc, closed>>

\* --------------------------------------------------------- StreamTraffic
\* upgrader.Upgrade: the websocket is established and the cleanup is deferred,
\* or the upgrade fails and StreamTraffic returns.
SUpgrade(c) ==
    /\ spc[c] = "idle"
    /\ \/ spc' = [spc EXCEPT ![c] = "register"]
       \/ spc' = [spc EXCEPT ![c] = "gone"]
    /\ UNCHANGED <<urlVars, directory, inbound, servers, pc, handlerVars, fanVars,
                   clients, hubMu, iter, hubLog, received, audience, closed>>

\* Mutant of RegisterLocks: the map is written without taking mu.
RegisterWithoutLock(c) == TRUE

\* mu.Lock() before clients[conn] = true.
RegisterLocks(c) == hubMu = NoThread

\* mu.Lock(); clients[conn] = true; mu.Unlock(), then the read loop starts.
SRegister(c) ==
    /\ spc[c] = "register"
    /\ RegisterLocks(c)
    /\ clients' = clients \cup {c}
    /\ spc' = [spc EXCEPT ![c] = "reading"]
    /\ UNCHANGED <<urlVars, directory, inbound, servers, pc, handlerVars, fanVars,
                   hubMu, iter, hubLog, received, audience, closed>>

\* conn.ReadMessage returns an error (the peer went away, or the connection
\* was closed): the loop breaks and the deferred function calls conn.Close().
SReadErr(c) ==
    /\ spc[c] = "reading"
    /\ closed' = [closed EXCEPT ![c] = TRUE]
    /\ spc' = [spc EXCEPT ![c] = "remove"]
    /\ UNCHANGED <<urlVars, directory, inbound, servers, pc, handlerVars, fanVars,
                   clients, hubMu, iter, hubLog, received, audience>>

\* The rest of the deferred function: mu.Lock(); delete(clients, conn);
\* mu.Unlock().
SRemove(c) ==
    /\ spc[c] = "remove"
    /\ hubMu = NoThread
    /\ clients' = Deleted(c)
    /\ spc' = [spc EXCEPT ![c] = "gone"]
    /\ UNCHANGED <<urlVars, directory, inbound, servers, pc, handlerVars, fanVars,
                   hubMu, iter, hubLog, received, audience, closed>>

Next ==
    \/ \E d \in Reqs : HStart(d) \/ HList(d) \/ HWait(d)
    \/ \E t \in Threads : TStart(t) \/ TResponse(t) \/ TLock(t) \/ TRead(t) \/ TExit(t)
    \/ \E t \in Threads : BcLock(t) \/ BcUnlock(t)
    \/ \E t \in Threads, c \in Subs : BcWrite(t, c)

Spec == Init /\ [][Next]_vars

\* The hub under connecting and disconnecting subscribers: one inbound request
\* to a directory of one active default destination, and MaxConns connections
\* that are upgraded, registered, written to and removed while the dispatch
\* and its replay broadcast.
HubDirectory ==
    << [id |-> 1, url |-> "http://a", method |-> "", isActive |-> TRUE,
        isDefault |-> TRUE] >>

InitHub ==
    /\ directory = HubDirectory
    /\ inbound = [d \in Reqs |-> IF d = 1 THEN "GET" ELSE NoReq]
    /\ pc = [t \in Threads |-> IF t = Handler(1) THEN "start" ELSE "idle"]
    /\ snapshot = [d \in Reqs |-> NotListed]
    /\ active = [d \in Reqs |-> << >>]
    /\ defaultDest = [d \in Reqs |-> Nil]
    /\ reply = [d \in Reqs |-> NoReply]
    /\ wg = [d \in Reqs |-> 0]
    /\ capMu = [d \in Reqs |-> 0]
    /\ resp = [t \in Threads |-> Nil]
    /\ outcome = [t \in Threads |-> "none"]
    /\ sent = [t \in Threads |-> 0]
    /\ defaultResponse = [d \in Reqs |-> Nil]
    /\ defaultResponseBody = [d \in Reqs |-> Nil]
    /\ writers = [d \in Reqs |-> {}]
    /\ servers = [u \in URLs |-> Answers(200)]
    /\ clients = {}
    /\ hubMu = NoThread
    /\ iter = {}
    /\ hubLog = << >>
    /\ audience = << >>
    /\ received = [c \in Subs |-> << >>]
    /\ spc = [c \in Subs |-> "idle"]
    /\ closed = [c \in Subs |-> FALSE]
    /\ route = NoRoute
    /\ forwardURL = Nil

NextHub ==
    \/ Next
    \/ \E c \in Subs : SUpgrade(c) \/ SRegister(c) \/ SReadErr(c) \/ SRemove(c)

SpecHub == InitHub /\ [][NextHub]_vars

\* Two dispatches of the same request against one directory and servers that
\* answer every request the same way; no subscriber is connected.
TwoRecords(i) ==
    [id : {i}, url : {"http://a", "http://b"}, method : {""}, isActive : {TRUE},
     isDefault : BOOLEAN]

RECURSIVE TwoDirectories(_)
TwoDirectories(n) ==
    IF n = 0 THEN {<< >>}
    ELSE {Append(l, r) : l \in TwoDirectories(n - 1), r \in TwoRecords(n)}

TwoServers ==
    {[u \in URLs |-> IF u = "http://a" THEN sa
                     ELSE IF u = "http://b" THEN sb ELSE Refuses] :
        sa \in {Answers(200), Refuses}, sb \in {Answers(503)}}

InitTwo ==
    /\ directory \in UNION {TwoDirectories(n) : n \in 0..MaxDests}
    /\ servers \in TwoServers
    /\ inbound = [d \in Reqs |-> IF d \in {1, 2} THEN "GET" ELSE NoReq]
    /\ pc = [t \in Threads |-> IF IsHandler(t) /\ inbound[t[1]] # NoReq
                                THEN "start" ELSE "idle"]
    /\ snapshot = [d \in Reqs |-> NotListed]
    /\ active = [d \in Reqs |-> << >>]
    /\ defaultDest = [d \in Reqs |-> Nil]
    /\ reply = [d \in Reqs |-> NoReply]
    /\ wg = [d \in Reqs |-> 0]
    /\ capMu = [d \in Reqs |-> 0]
    /\ resp = [t \in Threads |-> Nil]
    /\ outcome = [t \in Threads |-> "none"]
    /\ sent = [t \in Threads |-> 0]
    /\ defaultResponse = [d \in Reqs |-> Nil]
    /\ defaultResponseBody = [d \in Reqs |-> Nil]
    /\ writers = [d \in Reqs |-> {}]
    /\ clients = {}
    /\ hubMu = NoThread
    /\ iter = {}
    /\ hubLog = << >>
    /\ audience = << >>
    /\ received = [c \in Subs |-> << >>]
    /\ spc = [c \in Subs |-> "idle"]
    /\ closed = [c \in Subs |-> FALSE]
    /\ route = NoRoute
    /\ forwardURL = Nil

NextTwo ==
    \/ \E d \in Reqs : HStart(d) \/ HList(d) \/ HWait(d)
    \/ \E t \in Threads : TStart(t) \/ TResponse(t) \/ TLock(t) \/ TRead(t) \/ TExit(t)
    \/ \E t \in Threads : BcLock(t) \/ BcUnlock(t)

SpecTwo == InitTwo /\ [][NextTwo]_vars

\* Two dispatches of different requests, a GET and a POST, at the same time
\* against one directory whose records may be limited to GET; the two
\* servers answer with different statuses.
PairRecords(i) ==
    [id : {i}, url : {"http://a", "http://b"}, method : {"", "GET"}, isActive : {TRUE},
     isDefault : BOOLEAN]

RECURSIVE PairDirectories(_)
PairDirectories(n) ==
    IF n = 0 THEN {<< >>}
    ELSE {Append(l, r) : l \in PairDirectories(n - 1), r \in PairRecords(n)}

InitPair ==
    /\ directory \in UNION {PairDirectories(n) : n \in 0..MaxDests}
    /\ servers = [u \in URLs |-> IF u = "http://a" THEN Answers(200)
                                 ELSE IF u = "http://b" THEN Answers(503) ELSE Refuses]
    /\ inbound = [d \in Reqs |-> IF d = 1 THEN "GET" ELSE IF d = 2 THEN "POST" ELSE NoReq]
    /\ pc = [t \in Threads |-> IF IsHandler(t) /\ inbound[t[1]] # NoReq
                                THEN "start" ELSE "idle"]
    /\ snapshot = [d \in Reqs |-> NotListed]
    /\ active = [d \in Reqs |-> << >>]
    /\ defaultDest = [d \in Reqs |-> Nil]
    /\ reply = [d \in Reqs |-> NoReply]
    /\ wg = [d \in Reqs |-> 0]
    /\ capMu = [d \in Reqs |-> 0]
    /\ resp = [t \in Threads |-> Nil]
    /\ outcome = [t \in Threads |-> "none"]
    /\ sent = [t \in Threads |-> 0]
    /\ defaultResponse = [d \in Reqs |-> Nil]
    /\ defaultResponseBody = [d \in Reqs |-> Nil]
    /\ writers = [d \in Reqs |-> {}]
    /\ clients = {}
    /\ hubMu = NoThread
    /\ iter = {}
    /\ hubLog = << >>
    /\ audience = << >>
    /\ received = [c \in Subs |-> << >>]
    /\ spc = [c \in Subs |-> "idle"]
    /\ closed = [c \in Subs |-> FALSE]
    /\ route = NoRoute
    /\ forwardURL = Nil

NextPair ==
    \/ \E d \in Reqs : HStart(d) \/ HList(d) \/ HWait(d)
    \/ \E t \in Threads : TStart(t) \/ TResponse(t) \/ TLock(t) \/ TRead(t) \/ TExit(t)
    \/ \E t \in Threads : BcLock(t) \/ BcUnlock(t)

SpecPair == InitPair /\ [][NextPair]_vars

\* Dispatches, broadcasts and subscribers together: a GET and a POST are
\* dispatched at the same time to a directory of two records on one url,
\* both limited to GET, so that the GET has two replays that both go for the
\* capture lock and the POST ends after its broadcast; the server answers or
\* refuses; one subscriber is connected and may go away, a second connection
\* may be upgraded and registered, and the others have ended.
LiveDirectory ==
    << [id |-> 1, url |-> "http://a", method |-> "GET", isActive |-> TRUE,
        isDefault |-> FALSE],
       [id |-> 2, url |-> "http://a", method |-> "GET", isActive |-> TRUE,
        isDefault |-> TRUE] >>

InitLive ==
    /\ directory = LiveDirectory
    /\ servers \in {[u \in URLs |-> sa] : sa \in {Answers(200), Refuses}}
    /\ inbound = [d \in Reqs |-> IF d = 1 THEN "GET" ELSE IF d = 2 THEN "POST" ELSE NoReq]
    /\ pc = [t \in Threads |-> IF IsHandler(t) /\ inbound[t[1]] # NoReq
                                THEN "start" ELSE "idle"]
    /\ snapshot = [d \in Reqs |-> NotListed]
    /\ active = [d \in Reqs |-> << >>]
    /\ defaultDest = [d \in Reqs |-> Nil]
    /\ reply = [d \in Reqs |-> NoReply]
    /\ wg = [d \in Reqs |-> 0]
    /\ capMu = [d \in Reqs |-> 0]
    /\ resp = [t \in Threads |-> Nil]
    /\ outcome = [t \in Threads |-> "none"]
    /\ sent = [t \in Threads |-> 0]
    /\ defaultResponse = [d \in Reqs |-> Nil]
    /\ defaultResponseBody = [d \in Reqs |-> Nil]
    /\ writers = [d \in Reqs |-> {}]
    /\ clients = {1}
    /\ hubMu = NoThread
    /\ iter = {}
    /\ hubLog = << >>
    /\ audience = << >>
    /\ received = [c \in Subs |-> << >>]
    /\ spc = [c \in Subs |-> IF c = 1 THEN "reading" ELSE IF c = 2 THEN "idle" ELSE "gone"]
    /\ closed = [c \in Subs |-> c > 2]
    /\ route = NoRoute
    /\ forwardURL = Nil

\* The steps of the program whose progress the scheduler and the peers
\* guarantee: handlers, replay goroutines and broadcasts, and the locked
\* sections of StreamTraffic.
Dispatching == Next
Serving == \E c \in Subs : SRegister(c) \/ SRemove(c)

NextLive ==
    \/ Dispatching
    \/ Serving
    \/ \E c \in Subs : SUpgrade(c) \/ SReadErr(c)

\* Every runnable goroutine eventually runs, every destination eventually
\* answers or fails and every write to a subscriber eventually returns;
\* nothing is assumed about when connections are opened or dropped.
SpecLive ==
    InitLive /\ [][NextLive]_vars /\ WF_vars(Dispatching) /\ WF_vars(Serving)

\* ------------------------------------------------- directory management
\* The ObjectID of an inserted document: an id that no document of the
\* collection and no listing still held by a dispatch carries.
FreshId ==
    LET used == {directory[i].id : i \in 1..Len(directory)} \cup
                UNION {{snapshot[d].dests[i].id : i \in 1..Len(snapshot[d].dests)} :
                            d \in Reqs}
    IN  CHOOSE n \in 1..(2 * MaxDests + 1) :
            n \notin used /\ \A k \in 1..(n - 1) : k \in used

\* Bodies of POST /destinations and PUT /destinations/{id}.
NewDestinations ==
    [url : {"http://b"}, method : {""}, isActive : {TRUE}, isDefault : BOOLEAN]
Updates ==
    {[url |-> "", method |-> "", isActive |-> FALSE],
     [url |-> "http://b", method |-> "", isActive |-> TRUE]}

\* AddDestination: the decoded document is inserted; Find returns it last.
DAdd(body) ==
    /\ Len(directory) < MaxDests
    /\ directory' = Append(directory,
            [id |-> FreshId, url |-> body.url, method |-> body.method,
             isActive |-> body.isActive, isDefault |-> body.isDefault])
    /\ UNCHANGED <<urlVars, inbound, servers, pc, handlerVars, fanVars, hubVars>>

\* updateDestinationInDB: $set of url and method when they are not empty and
\* of isActive in any case; isDefault is never written.
Updated(dest, body) ==
    [dest EXCEPT !.url = IF body.url # "" THEN body.url ELSE @,
                 !.method = IF body.method # "" THEN body.method ELSE @,
                 !.isActive = body.isActive]

\* UpdateDestination of the document at position i.
DUpdate(i, body) ==
    /\ i \in 1..Len(directory)
    /\ directory' = [directory EXCEPT ![i] = Updated(@, body)]
    /\ directory' # directory
    /\ UNCHANGED <<urlVars, inbound, servers, pc, handlerVars, fanVars, hubVars>>

\* DeleteDestination of the document at position i.
DDelete(i) ==
    /\ i \in 1..Len(directory)
    /\ directory' = SubSeq(directory, 1, i - 1) \o SubSeq(directory, i + 1, Len(directory))
    /\ UNCHANGED <<urlVars, inbound, servers, pc, handlerVars, fanVars, hubVars>>

\* One dispatch while the directory is edited: the servers answer as
\* scripted and no subscriber is connected.
InitDir ==
    /\ directory \in UNION {TwoDirectories(n) : n \in 0..MaxDests}
    /\ servers = [u \in URLs |-> IF u = "http://a" THEN Answers(200)
                                 ELSE IF u = "http://b" THEN Answers(503)
                                 ELSE Refuses]
    /\ inbound = [d \in Reqs |-> IF d = 1 THEN "GET" ELSE NoReq]
    /\ pc = [t \in Threads |-> IF t = Handler(1) THEN "start" ELSE "idle"]
    /\ snapshot = [d \in Reqs |-> NotListed]
    /\ active = [d \in Reqs |-> << >>]
    /\ defaultDest = [d \in Reqs |-> Nil]
    /\ reply = [d \in Reqs |-> NoReply]
    /\ wg = [d \in Reqs |-> 0]
    /\ capMu = [d \in Reqs |-> 0]
    /\ resp = [t \in Threads |-> Nil]
    /\ outcome = [t \in Threads |-> "none"]
    /\ sent = [t \in Threads |-> 0]
    /\ defaultResponse = [d \in Reqs |-> Nil]
    /\ defaultResponseBody = [d \in Reqs |-> Nil]
    /\ writers = [d \in Reqs |-> {}]
    /\ clients = {}
    /\ hubMu = NoThread
    /\ iter = {}
    /\ hubLog = << >>
    /\ audience = << >>
    /\ received = [c \in Subs |-> << >>]
    /\ spc = [c \in Subs |-> "idle"]
    /\ closed = [c \in Subs |-> FALSE]
    /\ route = NoRoute
    /\ forwardURL = Nil

NextDir ==
    \/ NextTwo
    \/ \E body \in NewDestinations : DAdd(body)
    \/ \E i \in 1..MaxDests, body \in Updates : DUpdate(i, body)
    \/ \E i \in 1..MaxDests : DDelete(i)

SpecDir == InitDir /\ [][NextDir]_vars

\* ---------------------------------------------------- URL composition
\* Paths are sequences of characters. An inbound path is any string of at
\* most MaxPathLen characters of "/", a letter and the dot; the path of a
\* parsed destination url is empty or starts with "/".
PathChars == {"/", "a", "."}
BaseChars == {"/", "a"}
Queries == {"", "x=1"}

RECURSIVE StringsOfLen(_, _)
StringsOfLen(chars, n) ==
    IF n = 0 THEN {<< >>}
    ELSE {Append(w, ch) : w \in StringsOfLen(chars, n - 1), ch \in chars}
StringsUpTo(chars, n) == UNION {StringsOfLen(chars, k) : k \in 0..n}
BasePaths ==
    {<< >>} \cup {<<"/">> \o w : w \in StringsUpTo(BaseChars, MaxBaseLen - 1)}

\* strings.HasSuffix, strings.HasPrefix with a one-character argument.
HasSuffix(s, ch) == Len(s) > 0 /\ s[Len(s)] = ch
HasPrefix(s, ch) == Len(s) > 0 /\ s[1] = ch

RECURSIVE TrimRight(_, _)
\* strings.TrimRight: every trailing ch is removed.
TrimRight(s, ch) ==
    IF HasSuffix(s, ch) THEN TrimRight(SubSeq(s, 1, Len(s) - 1), ch) ELSE s

RECURSIVE TrimLeft(_, _)
\* strings.TrimLeft: every leading ch is removed.
TrimLeft(s, ch) ==
    IF HasPrefix(s, ch) THEN TrimLeft(Tail(s), ch) ELSE s

RECURSIVE Split(_)
\* The elements of a path: the strings between its slashes.
Split(s) ==
    IF \A i \in 1..Len(s) : s[i] # "/" THEN <<s>>
    ELSE LET i == CHOOSE j \in 1..Len(s) :
                    s[j] = "/" /\ \A k \in 1..(j - 1) : s[k] # "/"
         IN  <<SubSeq(s, 1, i - 1)>> \o Split(SubSeq(s, i + 1, Len(s)))

RECURSIVE Join(_)
Join(elems) ==
    IF Len(elems) = 0 THEN << >>
    ELSE IF Len(elems) = 1 THEN elems[1]
    ELSE elems[1] \o <<"/">> \o Join(Tail(elems))

RECURSIVE Resolve(_, _, _)
\* path.Clean's pass over the first k elements: empty and "." elements are
\* dropped, ".." removes the element before it, at the root ".." is dropped,
\* and a path that is not rooted keeps its leading ".." elements.
Resolve(elems, k, rooted) ==
    IF k = 0 THEN << >>
    ELSE LET out == Resolve(elems, k - 1, rooted)
             e == elems[k]
         IN  IF e = << >> \/ e = <<".">> THEN out
             ELSE IF e = <<".", ".">>
                 THEN IF Len(out) > 0 /\ out[Len(out)] # <<".", ".">>
                          THEN SubSeq(out, 1, Len(out) - 1)
                      ELSE IF rooted THEN out
                      ELSE Append(out, e)
             ELSE Append(out, e)

\* path.Clean
Clean(p) ==
    IF p = << >> THEN <<".">>
    ELSE LET rooted == p[1] = "/"
             elems == Split(p)
             out == Resolve(elems, Len(elems), rooted)
         IN  IF rooted THEN <<"/">> \o Join(out)
             ELSE IF out = << >> THEN <<".">>
             ELSE Join(out)

\* URLNormalizationMiddleware: path.Clean, TrimLeft "/", and "/" in front.
Normalize(p) == <<"/">> \o TrimLeft(Clean(p), "/")

\* Mutant of ComposePath: the two paths are concatenated as they are.
ComposeConcat(base, p) == base \o p

\* forwardURL.Path of forwardRequestToDestinations: the "/" that is appended
\* when neither side has one is removed again by TrimRight.
ComposePath(base, p) ==
    LET padded == IF ~HasSuffix(base, "/") /\ ~HasPrefix(p, "/")
                     THEN Append(base, "/") ELSE base
    IN  TrimRight(padded, "/") \o p

\* A destination url and an inbound request url, as the server parsed them.
InitURL ==
    /\ route \in [stage : {"router"}, base : BasePaths,
                  raw : StringsUpTo(PathChars, MaxPathLen),
                  path : {<< >>}, query : Queries]
    /\ forwardURL = Nil
    /\ directory = << >>
    /\ inbound = [d \in Reqs |-> NoReq]
    /\ pc = [t \in Threads |-> "idle"]
    /\ snapshot = [d \in Reqs |-> NotListed]
    /\ active = [d \in Reqs |-> << >>]
    /\ defaultDest = [d \in Reqs |-> Nil]
    /\ reply = [d \in Reqs |-> NoReply]
    /\ wg = [d \in Reqs |-> 0]
    /\ capMu = [d \in Reqs |-> 0]
    /\ resp = [t \in Threads |-> Nil]
    /\ outcome = [t \in Threads |-> "none"]
    /\ sent = [t \in Threads |-> 0]
    /\ defaultResponse = [d \in Reqs |-> Nil]
    /\ defaultResponseBody = [d \in Reqs |-> Nil]
    /\ writers = [d \in Reqs |-> {}]
    /\ servers = [u \in URLs |-> Unscripted]
    /\ clients = {}
    /\ hubMu = NoThread
    /\ iter = {}
    /\ hubLog = << >>
    /\ audience = << >>
    /\ received = [c \in Subs |-> << >>]
    /\ spc = [c \in Subs |-> "idle"]
    /\ closed = [c \in Subs |-> FALSE]

\* The middleware rewrites r.URL.Path and calls the next handler.
UNormalize ==
    /\ route.stage = "router"
    /\ route' = [route EXCEPT !.path = Normalize(route.raw), !.stage = "handler"]
    /\ UNCHANGED <<forwardURL, directory, inbound, servers, pc, handlerVars,
                   fanVars, hubVars>>

\* A replay goroutine composes its forward target from the destination url
\* and the request ForwardRequest received.
UCompose ==
    /\ route.stage = "handler"
    /\ forwardURL' = [path |-> ComposePath(route.base, route.path),
                      query |-> route.query]
    /\ route' = [route EXCEPT !.stage = "composed"]
    /\ UNCHANGED <<directory, inbound, servers, pc, handlerVars, fanVars, hubVars>>

NextURL == UNormalize \/ UCompose

SpecURL == InitURL /\ [][NextURL]_vars

\* ================================================================ claims
\* The vocabulary of the claims, stated on the directory listing of a request
\* and independently of the operators that model the code.
Listed(d) == snapshot[d].listed
Returned(d) == pc[Handler(d)] = "done"
Listing(d) == snapshot[d].dests
IsEligible(dest, m) ==
    dest.isActive = TRUE /\ (dest.method = "" \/ dest.method = m)
EligibleOf(d) ==
    {i \in 1..Len(Listing(d)) : IsEligible(Listing(d)[i], inbound[d])}
EligibleIds(d) == {Listing(d)[i].id : i \in EligibleOf(d)}
EligibleDefaultsOf(d) == {i \in EligibleOf(d) : Listing(d)[i].isDefault = TRUE}
ReplaysOf(d) == {t \in Threads : t[1] = d /\ t[2] >= 1 /\ pc[t] # "idle"}
LinesBy(t) == {k \in 1..Len(hubLog) : hubLog[k].by = t}

NoEligibleDestinations ==
    ErrorReply(StatusBadGateway, "No active destinations available")
NoDefaultDestination ==
    ErrorReply(StatusInternalServerError, "No default destination specified")
EmptyDefaultURL ==
    ErrorReply(StatusInternalServerError, "Default destination URL is empty")
DefaultDestinationUnreachable ==
    ErrorReply(StatusInternalServerError,
        "Error forwarding request: no response received from default destination")

\* C1: whenever a dispatch relays a response, its status, headers and body are
\* those of the replay sent to an eligible destination with isDefault = TRUE.
C1_RelaysTheDefault ==
    \A d \in Reqs :
        reply[d].kind = "relay" =>
            \E t \in ReplaysOf(d) :
                /\ IsEligible(Destination(t), inbound[d])
                /\ Destination(t).isDefault = TRUE
                /\ resp[t] # Nil
                /\ reply[d].code = resp[t].status
                /\ reply[d].header = Destination(t).id
                /\ reply[d].body =
                        [kind |-> "body", dest |-> Destination(t).id, complete |-> TRUE]

\* C2: a listing with no active and method-matching destination makes the
\* dispatch fail with NoEligibleDestinations, and no replay is started or sent.
C2_NoEligibleFails ==
    \A d \in Reqs :
        (Listed(d) /\ EligibleOf(d) = {}) =>
            /\ reply[d] = NoEligibleDestinations
            /\ Returned(d)
            /\ \A i \in 1..MaxDests : pc[<<d, i>>] = "idle" /\ sent[<<d, i>>] = 0

\* C2 witness: a dispatch over an inactive destination and an active one whose
\* method differs from the inbound method has failed with NoEligibleDestinations.
C2_Witness ==
    \E d \in Reqs :
        /\ Listed(d) /\ Returned(d)
        /\ Len(Listing(d)) = 2
        /\ ~Listing(d)[1].isActive
        /\ Listing(d)[2].isActive /\ Listing(d)[2].method \notin {"", inbound[d]}
        /\ reply[d] = NoEligibleDestinations

\* C3: a non-empty eligible set with no default makes the dispatch fail with
\* NoDefaultDestination, which is not the NoEligibleDestinations failure.
C3_NoDefaultFails ==
    \A d \in Reqs :
        (Listed(d) /\ EligibleOf(d) # {} /\ EligibleDefaultsOf(d) = {}) =>
            /\ reply[d] = NoDefaultDestination
            /\ reply[d] # NoEligibleDestinations
            /\ Returned(d)

\* C3 witness: the directory holds a default that is not eligible, beside an
\* eligible destination that is no default, and the dispatch has failed.
C3_Witness ==
    \E d \in Reqs :
        /\ Listed(d) /\ Returned(d)
        /\ EligibleOf(d) # {} /\ EligibleDefaultsOf(d) = {}
        /\ \E i \in 1..Len(Listing(d)) : Listing(d)[i].isDefault
        /\ reply[d] = NoDefaultDestination

\* C4: when every eligible default has an empty url the dispatch fails with
\* EmptyDefaultURL and attempts no replay; when the eligible defaults have
\* non-empty urls the dispatch never fails with EmptyDefaultURL.
C4_EmptyDefaultURL ==
    \A d \in Reqs :
        (Listed(d) /\ EligibleDefaultsOf(d) # {}) =>
            /\ (\A i \in EligibleDefaultsOf(d) : Listing(d)[i].url = "") =>
                    /\ reply[d] = EmptyDefaultURL
                    /\ ReplaysOf(d) = {}
            /\ (\A i \in EligibleDefaultsOf(d) : Listing(d)[i].url # "") =>
                    reply[d] # EmptyDefaultURL

PreCheckFailures ==
    {NoEligibleDestinations, NoDefaultDestination, EmptyDefaultURL,
     ErrorReply(StatusInternalServerError, "Error parsing default destination URL")}

C6_PartialFailure ==
    \A d \in Reqs :
        Returned(d) =>
            \A tD \in ReplaysOf(d), tN \in ReplaysOf(d) :
                ( /\ Cardinality(EligibleDefaultsOf(d)) = 1
                  /\ Destination(tD).isDefault /\ outcome[tD] = "ok"
                  /\ ~Destination(tN).isDefault /\ outcome[tN] = "doErr" ) =>
                    /\ reply[d].kind = "relay"
                    /\ reply[d].header = Destination(tD).id
                    /\ reply[d].code = resp[tD].status
                    /\ \E k \in LinesBy(tN) : hubLog[k].kind = "error"
                    /\ \E k \in LinesBy(tD) : hubLog[k].kind = "forwarded"

\* C7: when the replay of the one eligible default ended in an error, the
\* dispatch fails with DefaultDestinationUnreachable.
C7_DefaultFailureDominates ==
    \A d \in Reqs :
        Returned(d) =>
            \A tD \in ReplaysOf(d) :
                ( /\ Cardinality(EligibleDefaultsOf(d)) = 1
                  /\ Destination(tD).isDefault
                  /\ outcome[tD] \in {"doErr", "readErr"} ) =>
                    reply[d] = DefaultDestinationUnreachable

\* C8: when a dispatch has returned, the hub holds exactly one outcome line of
\* every replay task the dispatch started.
C8_OneLinePerReplay ==
    \A d \in Reqs :
        Returned(d) =>
            \A t \in ReplaysOf(d) : Cardinality(LinesBy(t)) = 1

C10_ReplayIsolation ==
    \A t \in Threads, u \in Threads :
        ( /\ t[1] = u[1] /\ t # u /\ ~IsHandler(t) /\ ~IsHandler(u)
          /\ pc[t] \in {"await", "read"} ) =>
            /\ ~(pc[u] = "lock" /\ capMu[t[1]] = t[2])
            /\ ~(pc[u] = "bcLock" /\ hubMu = t)

\* A step of dispatch d that does not wait for a subscriber: any step of its
\* handler or of one of its replays other than a write to a subscriber.
StepWithoutSubscriber(d) ==
    \/ HStart(d) \/ HList(d) \/ HWait(d)
    \/ \E i \in 0..MaxDests : BcLock(<<d, i>>) \/ BcUnlock(<<d, i>>)
    \/ \E i \in 1..MaxDests :
            \/ TStart(<<d, i>>) \/ TResponse(<<d, i>>) \/ TLock(<<d, i>>)
            \/ TRead(<<d, i>>) \/ TExit(<<d, i>>)

\* C11: a subscriber whose write never completes cannot stall a dispatch: a
\* dispatch that has not returned to its caller can always take a step that
\* does not wait for a subscriber's write (destinations answer, so every wait
\* for a destination ends).
C11_SubscriberCannotStall ==
    \A d \in Reqs :
        (inbound[d] # NoReq /\ ~Returned(d)) => ENABLED StepWithoutSubscriber(d)

\* The hub as the claims see it: line k was written to subscriber c, the
\* broadcast that is running, and the subscribers it has visited.
Got(c, k) == \E j \in 1..Len(received[c]) : received[c][j] = k
Broadcasting == hubMu # NoThread
CurrentLine == Len(hubLog)
Visited == audience[CurrentLine] \ iter
RangeOver == Broadcasting /\ iter = {}

\* C12: broadcast isolation. While a Broadcast call runs, every subscriber of
\* the set at the start of the call that it has visited either received the
\* line and is still in the set, or failed and is absent from the set; nobody
\* outside the starting set got the line; and when the range is over every
\* subscriber of the starting set has been visited.
C12_BroadcastIsolation ==
    Broadcasting =>
        /\ \A c \in Visited :
                \/ Got(c, CurrentLine) /\ c \in clients
                \/ ~Got(c, CurrentLine) /\ c \notin clients
        /\ \A c \in Subs \ Visited : ~Got(c, CurrentLine)
        /\ \A c \in Subs : Len(received[c]) =
                Cardinality({k \in 1..CurrentLine : Got(c, k)})
        /\ RangeOver => Visited = audience[CurrentLine]

\* C12 witness: a finished range over three subscribers in which one write
\* failed and the two others succeeded.
C12_Witness ==
    /\ RangeOver
    /\ Cardinality(audience[CurrentLine]) = 3
    /\ Cardinality(clients) = 2
    /\ \A c \in clients : Got(c, CurrentLine)

\* C13 (state part): no subscriber is visited by a range after its removal
\* completed, and a line is only ever received by a subscriber that was
\* registered when the broadcast of that line started.
C13_NoLateWrite ==
    /\ iter \subseteq clients
    /\ \A c \in Subs : \A k \in 1..Len(hubLog) : Got(c, k) => c \in audience[k]

\* C13 (step part): while a broadcast holds the lock, the only change of the
\* subscriber set is the ranging goroutine deleting the subscriber it has just
\* failed to write to.
C13_NoOverlap ==
    (Broadcasting /\ clients' # clients) =>
        \E c \in iter : iter' = iter \ {c} /\ clients' = clients \ {c}

\* C13: under any interleaving of Register, Remove and Broadcast, mutation of
\* the subscriber set never overlaps a range over it, no subscriber is written
\* to after its removal completed, and a subscriber registered after a
\* broadcast started does not receive that broadcast.
C13_MutualExclusion == [](C13_NoLateWrite) /\ [][C13_NoOverlap]_vars

\* C13 witness: two broadcasts have run; one subscriber was in the first
\* one's set and has since been removed by its own StreamTraffic, another
\* registered after the first broadcast started and did not get its line.
C13_Witness ==
    /\ Len(hubLog) = 2
    /\ \E c \in Subs : c \in audience[1] /\ spc[c] = "gone" /\ c \notin clients
    /\ \E c \in clients : c \notin audience[1] /\ c \in audience[2] /\ Got(c, 2)

\* C14: on a successful dispatch (the fan-out returned a captured response)
\* the caller's response carries the captured status code unchanged, 4xx and
\* 5xx included, the captured headers and exactly the captured body bytes; it
\* is never turned into a dispatch failure.
C14_RelayVerbatim ==
    \A d \in Reqs :
        (Returned(d) /\ defaultResponse[d] # Nil) =>
            /\ reply[d].kind = "relay"
            /\ reply[d].code = defaultResponse[d].status
            /\ reply[d].header = defaultResponse[d].dest
            /\ reply[d].body = defaultResponseBody[d]

\* C14 witness: a captured 503 and a complete body have been relayed.
C14_Witness ==
    \E d \in Reqs :
        /\ Returned(d)
        /\ defaultResponse[d] # Nil
        /\ defaultResponse[d].status = 503
        /\ defaultResponseBody[d].complete
        /\ reply[d].kind = "relay"

\* A base path without its trailing slashes, and a path that is already in
\* the form a client normally sends: rooted, no empty or dot element, no
\* trailing slash.
BaseStem(base) ==
    LET n == CHOOSE k \in 0..Len(base) :
                /\ k = 0 \/ base[k] # "/"
                /\ \A j \in (k + 1)..Len(base) : base[j] = "/"
    IN  SubSeq(base, 1, n)
IsPlain(p) ==
    /\ Len(p) > 0 /\ p[1] = "/"
    /\ \A i \in 1..Len(p) : p[i] # "."
    /\ \A i \in 1..(Len(p) - 1) : ~(p[i] = "/" /\ p[i + 1] = "/")
    /\ Len(p) > 1 => p[Len(p)] # "/"

\* C15 as stated: the forward target is the base path without its trailing
\* slashes, one separator, and the inbound path as the client sent it (less
\* its leading slashes), with the inbound query string.
C15_AppendsInboundPath ==
    route.stage = "composed" =>
        /\ forwardURL.path =
                BaseStem(route.base) \o <<"/">> \o TrimLeft(route.raw, "/")
        /\ forwardURL.query = route.query

\* C15, amended: the forward target is the base path without its trailing
\* slashes, then the inbound path as the middleware normalised it, which
\* starts with exactly one "/", has no empty element and no trailing slash:
\* one separator at the joint whatever slashes the base ends with and whether
\* or not the inbound path starts with one; a plain inbound path is appended
\* unchanged; the query string is the inbound one; and the target depends on
\* the base only through its stem, so /api/ and /api compose identically.
C15_UrlComposition ==
    route.stage = "composed" =>
        LET stem == BaseStem(route.base)
            out == forwardURL.path
            rest == SubSeq(out, Len(stem) + 1, Len(out))
        IN  /\ Len(out) > Len(stem)
            /\ SubSeq(out, 1, Len(stem)) = stem
            /\ rest[1] = "/"
            /\ Len(rest) > 1 => rest[2] # "/"
            /\ \A i \in 1..(Len(rest) - 1) : ~(rest[i] = "/" /\ rest[i + 1] = "/")
            /\ Len(rest) > 1 => rest[Len(rest)] # "/"
            /\ rest = route.path
            /\ IsPlain(route.raw) => rest = route.raw
            /\ forwardURL.query = route.query

\* C15 witness: base path /a without a trailing slash and the inbound path a
\* without a leading slash have been composed to /a/a, query kept.
C15_Witness ==
    /\ route.stage = "composed"
    /\ route.base = <<"/", "a">>
    /\ route.raw = <<"a">>
    /\ route.query = "x=1"
    /\ forwardURL = [path |-> <<"/", "a", "/", "a">>, query |-> "x=1"]

\* The failures of a dispatch as the claims name them: the directory lookup
\* failed (the request was announced to the hub, and no listing came back),
\* and no eligible default was reached (none got a complete response).
LookupFailed(d) == Returned(d) /\ ~Listed(d) /\ LinesBy(Handler(d)) # {}
DefaultUnreachable(d) ==
    /\ Listed(d) /\ Returned(d)
    /\ EligibleDefaultsOf(d) # {}
    /\ \A t \in ReplaysOf(d) : Destination(t).isDefault = TRUE => outcome[t] # "ok"

\* C16: a dispatch that fails because the lookup failed, nothing is eligible,
\* no eligible default exists or the default is unreachable answers its caller
\* with a 5xx error that carries no destination's headers or body; and a 2xx
\* status reaches the caller only as the status of a default's own response.
C16_FailuresAnswer5xx ==
    \A d \in Reqs :
        Returned(d) =>
            /\ ( \/ LookupFailed(d)
                 \/ Listed(d) /\ EligibleOf(d) = {}
                 \/ Listed(d) /\ EligibleDefaultsOf(d) = {}
                 \/ DefaultUnreachable(d) ) =>
                    /\ reply[d].kind = "error"
                    /\ reply[d].code \in 500..599
            /\ (reply[d].kind = "relay" /\ reply[d].code \in 200..299) =>
                    \E t \in ReplaysOf(d) :
                        /\ Destination(t).isDefault = TRUE
                        /\ resp[t] # Nil
                        /\ resp[t].status = reply[d].code

\* C18: the record ForwardRequest passes to the fan-out as the default is one
\* of the eligible records of the listing and has isDefault = TRUE, whatever
\* the order of the list.
C18_DefaultIsEligibleDefault ==
    \A d \in Reqs :
        (Listed(d) /\ ReplaysOf(d) # {}) =>
            /\ defaultDest[d] # Nil
            /\ \E i \in EligibleDefaultsOf(d) : Listing(d)[i] = defaultDest[d]

\* C20: the captured result of a dispatch is assigned by at most one of its
\* replay tasks, also when several eligible destinations have the url of the
\* default.
C20_SingleWriter ==
    \A d \in Reqs : Cardinality(writers[d]) <= 1

\* Two dispatches compared: both listed the directory and returned, every
\* server answers each request the same way, and the outcome of a dispatch as
\* the caller sees it: the failure, or the status with the server whose
\* headers were relayed.
BothReturned == Listed(1) /\ Listed(2) /\ Returned(1) /\ Returned(2)
ServersScripted == \A u \in URLs : servers[u] \in Scripts
UrlOfId(d, id) ==
    LET i == CHOOSE j \in 1..Len(Listing(d)) : Listing(d)[j].id = id
    IN  Listing(d)[i].url
OutcomeOf(d) ==
    IF reply[d].kind = "relay"
        THEN [kind |-> "relay", code |-> reply[d].code,
              from |-> UrlOfId(d, reply[d].header)]
    ELSE reply[d]

\* C17: two dispatches of the same request over the same directory, against
\* servers that answer identical requests identically, have the same outcome
\* (the same failure, or the same status and header set), however their
\* replay tasks are scheduled.
C17_Idempotence ==
    (BothReturned /\ ServersScripted /\ inbound[1] = inbound[2]
        /\ Listing(1) = Listing(2)) =>
            OutcomeOf(1) = OutcomeOf(2)

\* C17 witness: two dispatches whose replays of two destinations with the
\* default's url finished in different orders (each captured twice, and the
\* last capture is of a different replay) have returned.
C17_Witness ==
    /\ BothReturned /\ ServersScripted
    /\ writers[1] = {1, 2} /\ writers[2] = {1, 2}
    /\ reply[1].kind = "relay" /\ reply[2].kind = "relay"
    /\ reply[1].header # reply[2].header

\* C19: with more than one eligible default the dispatch is not failed for
\* that reason (it relays when the servers of the eligible defaults answer),
\* and the destination whose response is relayed is fixed by the list: two
\* dispatches of the same request over the same list relay the response of
\* the same destination, whichever replay finished first.
C19_DeterministicDefault ==
    (BothReturned /\ Listing(1) = Listing(2)
        /\ Cardinality(EligibleDefaultsOf(1)) > 1) =>
            /\ (\A i \in EligibleDefaultsOf(1) :
                    servers[Listing(1)[i].url].mode = "status") =>
                        reply[1].kind = "relay" /\ reply[2].kind = "relay"
            /\ (reply[1].kind = "relay" /\ reply[2].kind = "relay") =>
                    reply[1].header = reply[2].header

\* C21: when the listing holds an eligible default with a non-empty url, by
\* the time the handler has returned every eligible destination has had its
\* replay (and was sent the request when its url can be sent to), also when
\* the url of the default is malformed; and in that case the dispatch fails
\* with DefaultDestinationUnreachable.
C21_AllReplayedBeforeReturn ==
    \A d \in Reqs :
        ( /\ Listed(d) /\ Returned(d)
          /\ \E i \in EligibleDefaultsOf(d) : Listing(d)[i].url # EmptyURL ) =>
            /\ {Destination(t).id : t \in ReplaysOf(d)} = EligibleIds(d)
            /\ \A t \in ReplaysOf(d) :
                    /\ pc[t] = "done"
                    /\ Destination(t).url \notin {EmptyURL, BadURL} => sent[t] = 1
            /\ (\A i \in EligibleDefaultsOf(d) : Listing(d)[i].url = BadURL) =>
                    reply[d] = DefaultDestinationUnreachable

\* C22 (state part): a subscriber whose StreamTraffic has returned, or whose
\* write failed, is not in the set, and no line was written to a subscriber
\* twice.
C22_RemovedIsOut ==
    \A c \in Subs :
        /\ spc[c] = "gone" => c \notin clients
        /\ (closed[c] /\ spc[c] = "reading") => c \notin clients
        /\ \A j \in 1..(Len(received[c]) - 1) : received[c][j] < received[c][j + 1]

\* C22 (step part): a subscriber enters the set only by its one registration;
\* a line is written only to a member of the set whose connection is open; a
\* closed connection stays closed; and a subscriber that has left the set
\* never comes back and never receives anything.
C22_RemovedIsTerminal ==
    \A c \in Subs :
        /\ (c \notin clients /\ c \in clients') =>
                spc[c] = "register" /\ ~closed[c] /\ received[c] = << >>
        /\ received'[c] # received[c] => c \in clients /\ ~closed[c]
        /\ closed[c] => closed'[c]
        /\ (c \notin clients /\ spc[c] \notin {"idle", "register"}) =>
                c \notin clients' /\ received'[c] = received[c]

\* C22: each subscriber goes Connected -> Removed and Removed is terminal:
\* after a write error or a disconnect it is out of the set, is never
\* re-added, never receives a later broadcast, and no write to it is retried.
C22_SubscriberLifecycle == [](C22_RemovedIsOut) /\ [][C22_RemovedIsTerminal]_vars

\* C22 witness: one subscriber got the first line, failed on the second and
\* was removed by the broadcast; another was in the first broadcast's set,
\* disconnected and has been removed by its StreamTraffic.
C22_Witness ==
    /\ Len(hubLog) = 2
    /\ \E c \in Subs :
            /\ Got(c, 1) /\ ~Got(c, 2) /\ c \in audience[2]
            /\ closed[c] /\ c \notin clients /\ spc[c] = "reading"
    /\ \E c \in Subs : c \in audience[1] /\ spc[c] = "gone"

\* The eligible records of the listing of d, in list order.
EligibleSeq(d) ==
    LET Keep(r) == IsEligible(r, inbound[d]) IN SelectSeq(Listing(d), Keep)

\* C23 (state part): the replays of a dispatch are those of the eligible
\* records of its one listing, each replay works on its record of the
\* listing, and the selected default and the destination whose response is
\* relayed are records of the listing, whatever the directory holds now.
C23_FixedByListing ==
    \A d \in Reqs :
        Listed(d) =>
            /\ active[d] = EligibleSeq(d)
            /\ \A t \in ReplaysOf(d) :
                    /\ t[2] \in 1..Len(EligibleSeq(d))
                    /\ Destination(t) = EligibleSeq(d)[t[2]]
                    /\ resp[t] # Nil => resp[t].dest = EligibleSeq(d)[t[2]].id
            /\ defaultDest[d] # Nil =>
                    \E i \in 1..Len(Listing(d)) : Listing(d)[i] = defaultDest[d]
            /\ reply[d].kind = "relay" =>
                    \E i \in 1..Len(Listing(d)) :
                        /\ Listing(d)[i].id = reply[d].header
                        /\ Listing(d)[i].url = defaultDest[d].url

\* C23 (step part): a dispatch lists the directory once, and a change of the
\* directory changes nothing of a dispatch.
C23_EditsLeaveDispatch ==
    /\ \A d \in Reqs :
            Listed(d) =>
                /\ snapshot'[d] = snapshot[d]
                /\ active'[d] = active[d]
                /\ defaultDest'[d] = defaultDest[d]
    /\ directory' # directory => UNCHANGED <<pc, handlerVars, fanVars>>

\* C23: the destinations a dispatch replays to and its selected default are
\* fixed by the single listing taken at its start; destinations added,
\* updated, deactivated or deleted while it is in flight change neither the
\* replays it issues nor whose response it returns.
C23_DirectorySnapshot == [](C23_FixedByListing) /\ [][C23_EditsLeaveDispatch]_vars

\* C23 witness: a dispatch has relayed the response of a destination that
\* was deleted from the directory after the listing, next to a destination
\* that was added after it and got no replay.
C23_Witness ==
    \E d \in Reqs :
        /\ Listed(d) /\ Returned(d) /\ reply[d].kind = "relay"
        /\ \A i \in 1..Len(directory) : directory[i].id # reply[d].header
        /\ \E i \in 1..Len(directory) :
                /\ directory[i].isActive
                /\ directory[i].id \notin {Destination(t).id : t \in ReplaysOf(d)}

\* The 'Incoming Request' lines of dispatch d in the Hub's log.
IncomingLines(d) == {k \in LinesBy(Handler(d)) : hubLog[k].kind = "incoming"}
BodyUnread(d) ==
    reply[d] = ErrorReply(StatusInternalServerError, "Error reading request body")
PastAnnounce(d) == pc[Handler(d)] \in {"list", "wait", "done"}

\* Dispatch d has broadcast exactly one 'Incoming Request' line, the call has
\* returned, and every outcome line of its replays comes after it.
Announced(d) ==
    /\ Cardinality(IncomingLines(d)) = 1
    /\ hubMu # Handler(d)
    /\ \A t \in ReplaysOf(d) : \A k \in LinesBy(t) : \A j \in IncomingLines(d) : j < k

\* C24 as stated: every forward request that is past the start of the handler
\* has broadcast one 'Incoming Request' line, before the directory is read and
\* before any outcome line of its replays.
C24_EveryRequestAnnounced ==
    \A d \in Reqs :
        /\ PastAnnounce(d) => Announced(d)
        /\ Listed(d) => Announced(d)

\* C24 (amended): every forward request whose body was read broadcasts one
\* 'Incoming Request' line before the directory is read and before any
\* outcome line of its replays, also when it then fails with a directory
\* error, no eligible destinations, no default or an empty default url; a
\* request whose body cannot be read is answered 500 without any line.
C24_ReadRequestAnnounced ==
    \A d \in Reqs :
        /\ (PastAnnounce(d) /\ ~BodyUnread(d)) => Announced(d)
        /\ Listed(d) => Announced(d)
        /\ BodyUnread(d) => LinesBy(Handler(d)) = {} /\ ~Listed(d)
        /\ ~PastAnnounce(d) => ~Listed(d) /\ ReplaysOf(d) = {}
        /\ reply[d] \in {ErrorReply(StatusInternalServerError, "Error getting destinations"),
                         NoEligibleDestinations, NoDefaultDestination, EmptyDefaultURL}
                => Announced(d)

\* C24 witness: of two concurrent dispatches one failed at the directory
\* lookup after its line, and the other relayed a response after its line
\* and the outcome lines of its replays.
C24_Witness ==
    \E d, e \in Reqs :
        /\ Returned(d) /\ Returned(e)
        /\ reply[d] = ErrorReply(StatusInternalServerError, "Error getting destinations")
        /\ reply[e].kind = "relay"
        /\ \E t \in ReplaysOf(e) : LinesBy(t) # {}
        /\ Announced(d) /\ Announced(e)

\* The replays of dispatch d that took the capture branch and stored a pair.
CapturersOf(d) ==
    {t \in ReplaysOf(d) :
        /\ t[2] \in writers[d]
        /\ resp[t] # Nil
        /\ IsCapture(Destination(t), defaultDest[d])}
OwnReplaysDone(d) == \A t \in TasksOf(d) : pc[t] = "done"

\* C26 (state part): the pair a dispatch holds, and the response it relays,
\* is the response of one of its own capturing replays; and the join of a
\* dispatch returns exactly when its own replays have returned, whatever the
\* replays of other dispatches do.
C26_OwnCapture ==
    \A d \in Reqs :
        /\ defaultResponse[d] # Nil =>
                \E t \in CapturersOf(d) : resp[t] = defaultResponse[d]
        /\ reply[d].kind = "relay" =>
                \E t \in CapturersOf(d) :
                    /\ resp[t].dest = reply[d].header
                    /\ resp[t].status = reply[d].code
        /\ pc[Handler(d)] = "wait" => (ENABLED HWait(d) <=> OwnReplaysDone(d))

\* C26 (step part): a step of a thread of one dispatch leaves the listing,
\* the counter, the capture lock, the captured pair and the reply of every
\* other dispatch unchanged.
C26_StepsAreOwn ==
    \A t \in Threads :
        pc'[t] # pc[t] =>
            \A d \in Reqs \ {t[1]} :
                /\ snapshot'[d] = snapshot[d] /\ active'[d] = active[d]
                /\ defaultDest'[d] = defaultDest[d]
                /\ wg'[d] = wg[d] /\ capMu'[d] = capMu[d]
                /\ defaultResponse'[d] = defaultResponse[d]
                /\ defaultResponseBody'[d] = defaultResponseBody[d]
                /\ writers'[d] = writers[d]
                /\ reply'[d] = reply[d]

\* C26: concurrent dispatches do not interfere. Each dispatch returns the
\* response captured by a replay of its own and never one captured by a
\* replay of another dispatch, and its join waits only for its own replays.
C26_NoInterference == [](C26_OwnCapture) /\ [][C26_StepsAreOwn]_vars

\* C26 witness: one dispatch has relayed the response of its own replay
\* while a replay of the other dispatch is still running, and that other
\* dispatch, which replays to other destinations, holds no pair.
C26_Witness ==
    \E d, e \in Reqs :
        /\ d # e
        /\ Returned(d) /\ reply[d].kind = "relay"
        /\ pc[Handler(e)] = "wait" /\ ~OwnReplaysDone(e)
        /\ defaultResponse[e] = Nil
        /\ reply[d].header \notin {Destination(t).id : t \in ReplaysOf(e)}

\* Every dispatch has returned with its goroutines, no broadcast is under
\* way, and no connection waits to be registered or removed.
Completed ==
    /\ \A d \in Reqs : inbound[d] # NoReq => Returned(d)
    /\ \A t \in Threads : pc[t] \in {"idle", "done"}
    /\ hubMu = NoThread
    /\ \A c \in Subs : spc[c] \notin {"register", "remove"}

\* The lock order: whoever holds the Hub's lock is inside the range of
\* BroadcastTraffic and waits for no lock, and a goroutine that waits for
\* or takes the capture lock of its dispatch does not hold the Hub's lock.
LockOrder ==
    /\ hubMu # NoThread => pc[hubMu] = "bcWrite"
    /\ \A t \in Threads : pc[t] \in {"lock", "read"} => hubMu # t
    /\ \A d \in Reqs : capMu[d] # 0 => pc[<<d, capMu[d]>>] \in {"read", "bcLock", "bcWrite", "exit"}

\* C25: dispatch is deadlock-free and terminates. The capture lock of a
\* dispatch is taken before the Hub's lock and never the reverse, and the
\* concurrent dispatches, their broadcasts and the connects and disconnects
\* of subscribers all eventually complete.
C25_Terminates == [](LockOrder) /\ <>Completed

\* C25 witness: a replay holds the capture lock of its dispatch and waits
\* for the Hub's lock, which the handler of the other dispatch holds in the
\* middle of a broadcast, while the second replay of its dispatch waits for
\* the capture lock and a connection waits to be registered.
C25_Witness ==
    \E t, u \in Threads :
        /\ t[1] = u[1] /\ t # u
        /\ capMu[t[1]] = t[2] /\ pc[t] = "bcLock"
        /\ pc[u] = "lock"
        /\ hubMu # NoThread /\ hubMu[1] # t[1] /\ iter # {}
        /\ \E c \in Subs : spc[c] = "register"

\* The lines subscriber c has received, and the callers inside the range.
LinesGot(c) == {received[c][i] : i \in 1..Len(received[c])}
InRange == {t \in Threads : pc[t] = "bcWrite"}

\* C27 (state part): at most one Broadcast call is inside its range and it
\* holds the lock; every line before the latest has been delivered to every
\* subscriber of its call that has not failed; and every subscriber has
\* received its lines in the order in which the calls took the lock.
C27_OneAtATime ==
    /\ Cardinality(InRange) <= 1
    /\ \A t \in Threads : hubMu = t <=> t \in InRange
    /\ \A k \in 1..Len(hubLog) :
            (k < Len(hubLog) \/ hubMu = NoThread) =>
                \A c \in audience[k] : k \in LinesGot(c) \/ closed[c]
    /\ \A c \in Subs :
            /\ \A k \in LinesGot(c) : c \in audience[k]
            /\ \A i, j \in 1..Len(received[c]) :
                    i < j => received[c][i] < received[c][j]

\* C27 (step part): a call starts its delivery only when no other call is
\* delivering, and a delivered line is the line of the call that started last.
C27_NoneStartsBeforeEnd ==
    /\ hubLog' # hubLog => hubMu = NoThread /\ iter = {}
    /\ \A c \in Subs :
            received'[c] # received[c] =>
                /\ received'[c] = Append(received[c], Len(hubLog))
                /\ hubLog' = hubLog

\* C27: broadcasts are serialized. Of two Broadcast calls made concurrently
\* one completes its delivery to all subscribers before the other starts, so
\* every subscriber that receives both lines receives them in the same order.
C27_Serialized == [](C27_OneAtATime) /\ [][C27_NoneStartsBeforeEnd]_vars

\* C27 witness: two subscribers have both received two lines, of callers of
\* different dispatches, and a further call waits for the lock while another
\* delivers.
C27_Witness ==
    \E c, e \in Subs : \E j, k \in 1..Len(hubLog) :
        /\ c # e /\ j < k
        /\ hubLog[j].by[1] # hubLog[k].by[1]
        /\ {j, k} \subseteq LinesGot(c) /\ {j, k} \subseteq LinesGot(e)
        /\ hubMu # NoThread /\ iter # {}
        /\ \E t \in Threads : pc[t] = "bcLock"
====
